---- MODULE Spec2Model ----
(***************************************************************************)
(* Slot reservation subsystem of pro-slot-flow: the booking_slots table,   *)
(* the useProviderAvailability hook (setProviderAvailability,              *)
(* getAvailableSlots, holdSlot, releaseSlot) and the TimeSelection page    *)
(* (fetchAvailableSlots, handleSlotSelect, handleProceedToPayment,         *)
(* handleSlotExpired), with the verify-payment function that answers for   *)
(* the checkout of a user who went on to the cart.                         *)
(*                                                                         *)
(* Every statement sent to the store is one atomic step of the store; a    *)
(* handler that awaits the store is split at its awaits, with pc holding   *)
(* the position of each session's handler.  A handler's first statement    *)
(* is taken in the step of the event that starts the handler, and the      *)
(* store's answer is taken to arrive when the statement runs.  A session   *)
(* runs one handler at a time; a fetchAvailableSlots started while one is  *)
(* under way takes its place.  Time is counted in minutes.                 *)
(*                                                                         *)
(* The repository has no code that moves a row to booked or blocked, and   *)
(* none that reads hold_expires_at; SlotCountdownTimer and the rpc         *)
(* generate_provider_slots are not among the sources.                      *)
(*                                                                         *)
(* Spec and FairSpec are the pages with every session logged in and        *)
(* GuestSpec the pages with a session that is not.  HookSpec is the hook's *)
(* holdSlot and releaseSlot called directly, AdminSpec the admins'         *)
(* ServiceRegisterRequestSection over provider_registration_requests, and  *)
(* PaymentSpec the verify-payment function request by request; these       *)
(* share no state with the pages, so each has its own next-state relation. *)
(***************************************************************************)
EXTENDS Integers, Sequences, FiniteSets, TLC

\* ------------------------------------------------------------------ bounds
\* Largest clock value explored (minutes).
MaxNow == 9
\* Minutes by which one clock step advances: the clock is looked at before
\* and after a hold made at minute 0 has run out.
TickMinutes == 8

\* ------------------------------------------------------- program constants
\* 7 * 60 * 1000 ms, in minutes.
HOLD_DURATION == 7

\* null of an identifier, and null of a timestamp.
NULL == "null"
NullTime == -1

\* Sessions of the TimeSelection page; each one is logged in as the user of
\* the same name (useAuth().user.id).
Users == {"A", "B"}

\* Rows that booking_slots can contain.  s1..s4 are of provider p1 on date
\* d1; s5 is of another provider on that date and s6 of p1 on another date.
\* SlotOrder is time_slot.display_order.
SlotIds == {"s1", "s2", "s3", "s4", "s5", "s6"}
ProviderIds == {"p1", "p2"}
DateValues == {"d1", "d2"}
slot_provider == [s \in SlotIds |-> IF s = "s5" THEN "p2" ELSE "p1"]
slot_date == [s \in SlotIds |-> IF s = "s6" THEN "d2" ELSE "d1"]
SlotOrder == [s \in SlotIds |-> CASE s = "s1" -> 1 [] s = "s2" -> 2
                                   [] s = "s3" -> 3 [] s = "s4" -> 4
                                   [] s = "s5" -> 1 [] s = "s6" -> 2]

\* The provider who changes the availability in this model, and the date it
\* is changed for.
Providers == {"p1"}
Dates == {"d1"}

\* The provider and date the TimeSelection page was opened for.
providerId == "p1"
selectedDate == "d1"

\* status of a row; "absent" (never generated) and "deleted" (pruned) stand
\* for the row not being in the table.
RowStatus == {"available", "held", "booked", "blocked"}
InTable(row) == row.status \in RowStatus

VARIABLES
    now,                    \* Date.now(), minutes
    booking_slots,          \* the table: status, held_by, hold_expires_at
    pc,                     \* position of each session's handler
    slot,                   \* argument of the running handleSlotSelect
    ret,                    \* <<value>> the awaited hook call returned, else <<>>
    availableSlots,         \* useState: list shown on the page
    selectedSlot,           \* useState
    heldSlot,               \* useState
    fetchPc,                \* position of fetchAvailableSlots (loading)
    expiresAt,              \* expiresAt prop of the rendered countdown
    calledAt,               \* Date.now() read by a holdSlot call under way
    cartState,              \* selectedSlot handed to /cart by navigate
    orderId,                \* orderId of verify-payment's answer, else <<>>
    toast,                  \* <<user, title>> of the toast the step shows, else <<>>
    user,                   \* useAuth().user of each session: its id, else NULL
    provider_registration_requests, \* the table: status, approved_by, rejected_by
    requests,               \* useState of each admin's section: the rows fetched
    filter,                 \* useState of each admin's section
    adminPc,                \* position of each admin's handler
    req,                    \* the request verify-payment is serving
    res                     \* the Response it returned

vars == <<now, booking_slots, pc, slot, ret,
          availableSlots, selectedSlot, heldSlot, fetchPc, expiresAt,
          calledAt, cartState, orderId, toast, user,
          provider_registration_requests, requests, filter, adminPc, req, res>>

clientVars == <<pc, slot, ret, availableSlots, selectedSlot, heldSlot,
                fetchPc, expiresAt, calledAt, cartState, orderId>>

\* The state of ServiceRegisterRequestSection and of verify-payment, which
\* share nothing with the slot pages.
adminVars == <<provider_registration_requests, requests, filter, adminPc>>
payVars == <<req, res>>

\* No toast is shown.
NoToast == <<>>

Row(st, by, exp) == [status |-> st, held_by |-> by, hold_expires_at |-> exp]

\* --------------------------------------------------- the store's statements

\* The query without .eq('provider_id', ..).
MatchesQueryAnyProvider(tbl, p, d) ==
    {s \in SlotIds : /\ tbl[s].status = "available"
                     /\ slot_date[s] = d}

\* .eq('provider_id', ..).eq('date', ..).eq('status', 'available')
MatchesQuery(tbl, p, d) ==
    {s \in SlotIds : /\ tbl[s].status = "available"
                     /\ slot_provider[s] = p
                     /\ slot_date[s] = d}

RECURSIVE OrderBy(_)
\* .order('time_slot.display_order'): the rows of S by ascending SlotOrder.
OrderBy(S) ==
    IF S = {} THEN <<>>
    ELSE LET first == CHOOSE s \in S : \A r \in S : SlotOrder[s] <= SlotOrder[r]
         IN  <<first>> \o OrderBy(S \ {first})

\* getAvailableSlots: the ordered rows, or [] when the store reports an error.
getAvailableSlots(tbl, p, d, error) ==
    IF error THEN <<>> ELSE OrderBy(MatchesQuery(tbl, p, d))

\* holdExpiresAt without the 7 minutes added.
HoldExpiresAtNoOffset(t) == t

\* holdExpiresAt = new Date(Date.now() + 7 * 60 * 1000)
HoldExpiresAt(t) == t + HOLD_DURATION

\* The update without .eq('status', 'available').
HoldUpdateUnconditional(tbl, slotId, userId, holdExpires) ==
    [s \in SlotIds |->
        IF s = slotId /\ InTable(tbl[s])
        THEN Row("held", userId, holdExpires)
        ELSE tbl[s]]

\* holdSlot's statement: update {held, userId, holdExpiresAt}
\* where id = slotId and status = 'available'.
HoldUpdate(tbl, slotId, userId, holdExpires) ==
    [s \in SlotIds |->
        IF s = slotId /\ tbl[s].status = "available"
        THEN Row("held", userId, holdExpires)
        ELSE tbl[s]]

\* holdSlot's return value: true unless the store reported an error; the
\* number of rows the update matched is not looked at.
holdSlotReturn(error) == ~error

\* The update without .eq('held_by', userId).
ReleaseUpdateAnyHolder(tbl, slotId, userId) ==
    [s \in SlotIds |->
        IF s = slotId /\ InTable(tbl[s])
        THEN Row("available", NULL, NullTime)
        ELSE tbl[s]]

\* The update without hold_expires_at: null.
ReleaseUpdateKeepDeadline(tbl, slotId, userId) ==
    [s \in SlotIds |->
        IF s = slotId /\ InTable(tbl[s]) /\ tbl[s].held_by = userId
        THEN Row("available", NULL, tbl[s].hold_expires_at)
        ELSE tbl[s]]

\* releaseSlot's statement: update {available, null, null}
\* where id = slotId and held_by = userId.
ReleaseUpdate(tbl, slotId, userId) ==
    IF InTable(tbl[slotId]) /\ tbl[slotId].held_by = userId
    THEN [tbl EXCEPT ![slotId] = Row("available", NULL, NullTime)]
    ELSE tbl

\* releaseSlot returning true from its catch as well.
releaseSlotReturnAlwaysTrue(error) == TRUE

\* releaseSlot's return value.
releaseSlotReturn(error) == ~error

\* The delete without .eq('status', 'available').
DeleteAnyStatus(tbl, p, d) ==
    [s \in SlotIds |->
        IF InTable(tbl[s]) /\ slot_provider[s] = p /\ slot_date[s] = d
        THEN Row("deleted", NULL, NullTime)
        ELSE tbl[s]]

\* delete where provider_id = p and date = d and status = 'available'.
DeleteAvailable(tbl, p, d) ==
    [s \in SlotIds |->
        IF s \in MatchesQuery(tbl, p, d) THEN Row("deleted", NULL, NullTime)
        ELSE tbl[s]]

\* A generation that inserts a row for every slot of (p, d), also where one
\* exists: "duplicate" stands for two rows of the same provider, date and time.
GenerateSlotsNoConflictCheck(tbl, p, d) ==
    [s \in SlotIds |->
        IF slot_provider[s] = p /\ slot_date[s] = d
        THEN IF tbl[s].status = "absent" THEN Row("available", NULL, NullTime)
             ELSE IF InTable(tbl[s]) THEN Row("duplicate", NULL, NullTime)
             ELSE tbl[s]
        ELSE tbl[s]]

\* rpc generate_provider_slots(p, d, d): a row for every slot of (p, d) that
\* was never generated; rows that exist are left alone.
GenerateSlots(tbl, p, d) ==
    [s \in SlotIds |->
        IF tbl[s].status = "absent" /\ slot_provider[s] = p /\ slot_date[s] = d
        THEN Row("available", NULL, NullTime)
        ELSE tbl[s]]

\* The prop without the 7 minutes added.
RenderExpiresAtNoOffset(held, t) == IF held = NULL THEN NullTime ELSE t

\* What a render of the page passes to SlotCountdownTimer as expiresAt:
\* new Date(Date.now() + 7 * 60 * 1000), and no timer without a heldSlot.
RenderExpiresAt(held, t) == IF held = NULL THEN NullTime ELSE t + HOLD_DURATION

\* ----------------------------------------------------------------- Init
\* ------------------------------------------- registration requests, payment
\* The administrators whose section is open and the request in the table.
Admins == {"adm1", "adm2"}
RequestIds == {"r1"}
RequestStatus == {"pending", "approved", "rejected"}
Filters == {"all", "pending", "approved", "rejected"}

Request(st, ab, rb) == [status |-> st, approved_by |-> ab, rejected_by |-> rb]

\* A request to verify-payment with what the services it calls answer:
\* the STRIPE_SECRET_KEY of the environment is set or not, and session is the
\* payment_status of the checkout session Stripe retrieves for sessionId
\* (NULL: the retrieval throws or gives no session).
HttpRequest(m, h, sid, key, ps) ==
    [method |-> m, authHeader |-> h, sessionId |-> sid,
     stripeSecretKey |-> key, session |-> ps]

\* A Response: its status, and the success and orderId of its body as
\* <<value>>, or <<>> where the body has none.
Response(st, ok, oid) == [status |-> st, success |-> ok, orderId |-> oid]

\* No request is being served; no Response has been returned.
NoRequest == HttpRequest("none", NULL, NULL, FALSE, NULL)
NoResponse == Response(0, <<>>, <<>>)

\* The tables the model starts from: s1 and s2 generated or not yet, s3
\* booked and s4 blocked by an administrator (no code of the repository
\* moves a row into or out of booked or blocked), s5 and s6 available.
InitialTables ==
    {tbl \in [SlotIds -> {Row(st, NULL, NullTime) :
                            st \in {"absent", "available", "booked", "blocked"}}] :
        /\ tbl["s1"].status \in {"absent", "available"}
        /\ tbl["s2"].status \in {"absent", "available"}
        /\ tbl["s3"].status = "booked"
        /\ tbl["s4"].status = "blocked"
        /\ tbl["s5"].status = "available"
        /\ tbl["s6"].status = "available"}

\* The pages, the admin sections and the function before anything happened.
Start ==
    /\ now = 0
    /\ booking_slots \in InitialTables
    /\ pc = [u \in Users |-> "idle"]
    /\ slot = [u \in Users |-> NULL]
    /\ ret = [u \in Users |-> <<>>]
    /\ availableSlots = [u \in Users |-> <<>>]
    /\ selectedSlot = [u \in Users |-> NULL]
    /\ heldSlot = [u \in Users |-> NULL]
    /\ fetchPc = [u \in Users |-> "query"]
    /\ expiresAt = [u \in Users |-> NullTime]
    /\ calledAt = [u \in Users |-> NullTime]
    /\ cartState = [u \in Users |-> NULL]
    /\ orderId = [u \in Users |-> <<>>]
    /\ toast = NoToast
    /\ provider_registration_requests = [r \in RequestIds |-> Request("pending", NULL, NULL)]
    /\ requests = [a \in Admins |-> [r \in RequestIds |-> NULL]]
    /\ filter = [a \in Admins |-> "pending"]
    /\ adminPc = [a \in Admins |-> "fetch"]
    /\ req = NoRequest
    /\ res = NoResponse

\* Every session is logged in as the user of its name.
Init ==
    /\ Start
    /\ user = [u \in Users |-> u]

\* Session B has opened the page without logging in.
GuestInit ==
    /\ Start
    /\ user = [u \in Users |-> IF u = "B" THEN NULL ELSE u]

\* ------------------------------------------------------------ the clock
Tick ==
    /\ now + TickMinutes <= MaxNow
    /\ now' = now + TickMinutes
    /\ toast' = NoToast
    /\ UNCHANGED <<user, adminVars, payVars>>
    /\ UNCHANGED <<booking_slots, clientVars>>

\* ------------------------------------------------- fetchAvailableSlots
\* The first query has been answered.  A non-empty answer becomes the list;
\* an empty one (also the [] of a store error) leads to the second query,
\* the generation between the two being commented out.
FetchQuery(u) ==
    /\ fetchPc[u] = "query"
    /\ \E error \in BOOLEAN :
         LET slots == getAvailableSlots(booking_slots, providerId, selectedDate, error)
         IN  IF Len(slots) = 0
             THEN /\ fetchPc' = [fetchPc EXCEPT ![u] = "requery"]
                  /\ UNCHANGED <<availableSlots, expiresAt>>
             ELSE /\ fetchPc' = [fetchPc EXCEPT ![u] = "idle"]
                  /\ availableSlots' = [availableSlots EXCEPT ![u] = slots]
                  /\ expiresAt' = [expiresAt EXCEPT ![u] = RenderExpiresAt(heldSlot[u], now)]
    /\ toast' = NoToast
    /\ UNCHANGED <<user, adminVars, payVars>>
    /\ UNCHANGED <<now, booking_slots, pc, slot,
                   ret, selectedSlot, heldSlot, cartState,
                   calledAt, orderId>>

\* The second query has been answered; its answer becomes the list.
FetchRequery(u) ==
    /\ fetchPc[u] = "requery"
    /\ \E error \in BOOLEAN :
         LET newSlots == getAvailableSlots(booking_slots, providerId, selectedDate, error)
         IN  availableSlots' = [availableSlots EXCEPT ![u] = newSlots]
    /\ fetchPc' = [fetchPc EXCEPT ![u] = "idle"]
    /\ expiresAt' = [expiresAt EXCEPT ![u] = RenderExpiresAt(heldSlot[u], now)]
    /\ toast' = NoToast
    /\ UNCHANGED <<user, adminVars, payVars>>
    /\ UNCHANGED <<now, booking_slots, pc, slot,
                   ret, selectedSlot, heldSlot, cartState,
                   calledAt, orderId>>

\* ------------------------------------------------------ handleSlotSelect
\* The handler without its check of the user.
HandleSlotSelectNoUserCheck(u, s) ==
    /\ pc[u] = "idle"
    /\ fetchPc[u] = "idle"
    /\ \E i \in 1..Len(availableSlots[u]) : availableSlots[u][i] = s
    /\ slot' = [slot EXCEPT ![u] = s]
    /\ \E error \in BOOLEAN :
         IF heldSlot[u] # NULL /\ heldSlot[u] # s
         THEN /\ booking_slots' = IF error THEN booking_slots
                                  ELSE ReleaseUpdate(booking_slots, heldSlot[u], user[u])
              /\ ret' = [ret EXCEPT ![u] = <<releaseSlotReturn(error)>>]
              /\ pc' = [pc EXCEPT ![u] = "sel_hold"]
         ELSE /\ booking_slots' = IF error THEN booking_slots
                                  ELSE HoldUpdate(booking_slots, s, user[u], HoldExpiresAt(now))
              /\ ret' = [ret EXCEPT ![u] = <<holdSlotReturn(error)>>]
              /\ pc' = [pc EXCEPT ![u] = "sel_done"]
    /\ toast' = NoToast
    /\ calledAt' = IF heldSlot[u] # NULL /\ heldSlot[u] # s
                   THEN [calledAt EXCEPT ![u] = now] ELSE calledAt
    /\ UNCHANGED <<user, adminVars, payVars>>
    /\ UNCHANGED <<now, availableSlots,
                   selectedSlot, heldSlot, fetchPc, expiresAt, cartState, orderId>>

\* A click on the button of a listed slot (the buttons are rendered only
\* while loading is false).  Without a user the handler shows a toast and
\* returns; else it runs up to the first call it awaits:
\* releaseSlot(heldSlot.id, user.id) if another slot is held, whose returned
\* value is not looked at, else holdSlot(slot.id, user.id).  holdSlot reads
\* Date.now() for holdExpiresAt when it is called.
HandleSlotSelect(u, s) ==
    /\ pc[u] = "idle"
    /\ fetchPc[u] = "idle"
    /\ \E i \in 1..Len(availableSlots[u]) : availableSlots[u][i] = s
    /\ IF user[u] = NULL
       THEN /\ toast' = <<u, "Authentication Required">>
            /\ UNCHANGED <<booking_slots, slot, ret, pc>>
       ELSE /\ slot' = [slot EXCEPT ![u] = s]
            /\ \E error \in BOOLEAN :
                 IF heldSlot[u] # NULL /\ heldSlot[u] # s
                 THEN /\ booking_slots' = IF error THEN booking_slots
                                          ELSE ReleaseUpdate(booking_slots, heldSlot[u], user[u])
                      /\ ret' = [ret EXCEPT ![u] = <<releaseSlotReturn(error)>>]
                      /\ pc' = [pc EXCEPT ![u] = "sel_hold"]
                 ELSE /\ booking_slots' = IF error THEN booking_slots
                                          ELSE HoldUpdate(booking_slots, s, user[u], HoldExpiresAt(now))
                      /\ ret' = [ret EXCEPT ![u] = <<holdSlotReturn(error)>>]
                      /\ pc' = [pc EXCEPT ![u] = "sel_done"]
            /\ toast' = NoToast
    /\ calledAt' = IF user[u] # NULL /\ heldSlot[u] # NULL /\ heldSlot[u] # s
                   THEN [calledAt EXCEPT ![u] = now] ELSE calledAt
    /\ UNCHANGED <<user, adminVars, payVars>>
    /\ UNCHANGED <<now, availableSlots,
                   selectedSlot, heldSlot, fetchPc, expiresAt, cartState, orderId>>

\* const success = await holdSlot(slot.id, user.id) after the release: the
\* store runs the statement or reports an error.
SelectHold(u) ==
    /\ pc[u] = "sel_hold"
    /\ \E error \in BOOLEAN :
         /\ booking_slots' = IF error THEN booking_slots
                             ELSE HoldUpdate(booking_slots, slot[u], u, HoldExpiresAt(calledAt[u]))
         /\ ret' = [ret EXCEPT ![u] = <<holdSlotReturn(error)>>]
    /\ pc' = [pc EXCEPT ![u] = "sel_done"]
    /\ calledAt' = [calledAt EXCEPT ![u] = NullTime]
    /\ toast' = NoToast
    /\ UNCHANGED <<user, adminVars, payVars>>
    /\ UNCHANGED <<now, slot, availableSlots,
                   selectedSlot, heldSlot, fetchPc, expiresAt, cartState, orderId>>

\* The title of the toast handleSlotSelect shows for holdSlot's answer; the
\* description under "Slot Unavailable" is "This slot is no longer available".
SelectToast(success) == IF success THEN "Slot Reserved" ELSE "Slot Unavailable"

\* if (success) { setSelectedSlot; setHeldSlot; toast }
\* else { toast; fetchAvailableSlots() }
SelectDone(u) ==
    /\ pc[u] = "sel_done"
    /\ IF ret[u] = <<TRUE>>
       THEN /\ selectedSlot' = [selectedSlot EXCEPT ![u] = slot[u]]
            /\ heldSlot' = [heldSlot EXCEPT ![u] = slot[u]]
            /\ expiresAt' = [expiresAt EXCEPT ![u] = RenderExpiresAt(slot[u], now)]
            /\ UNCHANGED fetchPc
       ELSE /\ fetchPc' = [fetchPc EXCEPT ![u] = "query"]
            /\ expiresAt' = [expiresAt EXCEPT ![u] = RenderExpiresAt(heldSlot[u], now)]
            /\ UNCHANGED <<selectedSlot, heldSlot>>
    /\ pc' = [pc EXCEPT ![u] = "idle"]
    /\ slot' = [slot EXCEPT ![u] = NULL]
    /\ ret' = [ret EXCEPT ![u] = <<>>]
    /\ toast' = <<u, SelectToast(ret[u] = <<TRUE>>)>>
    /\ UNCHANGED <<user, adminVars, payVars>>
    /\ UNCHANGED <<now, booking_slots, availableSlots, calledAt, cartState, orderId>>

\* ------------------------------------------------ handleProceedToPayment
\* The button is rendered while heldSlot is set.  The handler looks at
\* selectedSlot and heldSlot only and navigates to /cart with the held slot;
\* the page is left with the slot still held in the store.
HandleProceedToPayment(u) ==
    /\ pc[u] = "idle"
    /\ heldSlot[u] # NULL
    /\ IF selectedSlot[u] # NULL /\ heldSlot[u] # NULL
       THEN /\ cartState' = [cartState EXCEPT ![u] = heldSlot[u]]
            /\ pc' = [pc EXCEPT ![u] = "away"]
            /\ availableSlots' = [availableSlots EXCEPT ![u] = <<>>]
            /\ selectedSlot' = [selectedSlot EXCEPT ![u] = NULL]
            /\ heldSlot' = [heldSlot EXCEPT ![u] = NULL]
            /\ fetchPc' = [fetchPc EXCEPT ![u] = "idle"]
            /\ expiresAt' = [expiresAt EXCEPT ![u] = NullTime]
       ELSE UNCHANGED <<cartState, pc, availableSlots, selectedSlot, heldSlot,
                        fetchPc, expiresAt>>
    /\ toast' = NoToast
    /\ UNCHANGED <<user, adminVars, payVars>>
    /\ UNCHANGED <<now, booking_slots, slot, ret,
                   calledAt, orderId>>

\* navigate(-1) of the header's back button, or the tab being closed: the
\* page is unmounted and nothing is sent to the store.
LeavePage(u) ==
    /\ pc[u] = "idle"
    /\ pc' = [pc EXCEPT ![u] = "away"]
    /\ availableSlots' = [availableSlots EXCEPT ![u] = <<>>]
    /\ selectedSlot' = [selectedSlot EXCEPT ![u] = NULL]
    /\ heldSlot' = [heldSlot EXCEPT ![u] = NULL]
    /\ fetchPc' = [fetchPc EXCEPT ![u] = "idle"]
    /\ expiresAt' = [expiresAt EXCEPT ![u] = NullTime]
    /\ cartState' = [cartState EXCEPT ![u] = NULL]
    /\ toast' = NoToast
    /\ UNCHANGED <<user, adminVars, payVars>>
    /\ UNCHANGED <<now, booking_slots, slot, ret,
                   calledAt, orderId>>

\* The page is opened again: useState starts from its initial values and the
\* mount effect calls fetchAvailableSlots.
MountPage(u) ==
    /\ pc[u] = "away"
    /\ pc' = [pc EXCEPT ![u] = "idle"]
    /\ fetchPc' = [fetchPc EXCEPT ![u] = "query"]
    /\ cartState' = [cartState EXCEPT ![u] = NULL]
    /\ orderId' = [orderId EXCEPT ![u] = <<>>]
    /\ toast' = NoToast
    /\ UNCHANGED <<user, adminVars, payVars>>
    /\ UNCHANGED <<now, booking_slots, slot, ret,
                   availableSlots, selectedSlot, heldSlot, expiresAt,
                   calledAt>>

\* ----------------------------------------------------- handleSlotExpired
\* The countdown calls onExpired once the remaining time to its expiresAt is
\* not positive; the handler does nothing without a heldSlot.
TimerDue(u) == expiresAt[u] # NullTime /\ expiresAt[u] - now <= 0

\* onExpired and the call the handler awaits:
\* releaseSlot(heldSlot.id, user.id), whose returned value is not looked at.
HandleSlotExpired(u) ==
    /\ pc[u] = "idle"
    /\ TimerDue(u)
    /\ heldSlot[u] # NULL /\ user[u] # NULL
    /\ \E error \in BOOLEAN :
         /\ booking_slots' = IF error THEN booking_slots
                             ELSE ReleaseUpdate(booking_slots, heldSlot[u], u)
         /\ ret' = [ret EXCEPT ![u] = <<releaseSlotReturn(error)>>]
    /\ pc' = [pc EXCEPT ![u] = "exp_done"]
    /\ toast' = NoToast
    /\ UNCHANGED <<user, adminVars, payVars>>
    /\ UNCHANGED <<now, slot, availableSlots,
                   selectedSlot, heldSlot, fetchPc, expiresAt, calledAt,
                   cartState, orderId>>

\* The handler without setHeldSlot(null) and setSelectedSlot(null).
ExpiredDoneKeepsHeldSlot(u) ==
    /\ pc[u] = "exp_done"
    /\ fetchPc' = [fetchPc EXCEPT ![u] = "query"]
    /\ pc' = [pc EXCEPT ![u] = "idle"]
    /\ ret' = [ret EXCEPT ![u] = <<>>]
    /\ toast' = <<u, "Slot Expired">>
    /\ UNCHANGED <<user, adminVars, payVars>>
    /\ UNCHANGED <<now, booking_slots, slot, heldSlot, selectedSlot, expiresAt,
                   availableSlots, cartState, calledAt, orderId>>

\* setHeldSlot(null); setSelectedSlot(null); fetchAvailableSlots(); toast
ExpiredDone(u) ==
    /\ pc[u] = "exp_done"
    /\ heldSlot' = [heldSlot EXCEPT ![u] = NULL]
    /\ selectedSlot' = [selectedSlot EXCEPT ![u] = NULL]
    /\ fetchPc' = [fetchPc EXCEPT ![u] = "query"]
    /\ expiresAt' = [expiresAt EXCEPT ![u] = NullTime]
    /\ pc' = [pc EXCEPT ![u] = "idle"]
    /\ ret' = [ret EXCEPT ![u] = <<>>]
    /\ toast' = <<u, "Slot Expired">>
    /\ UNCHANGED <<user, adminVars, payVars>>
    /\ UNCHANGED <<now, booking_slots, slot,
                   availableSlots, cartState,
                   calledAt, orderId>>

\* --------------------------------------------------------- verify-payment
\* orderId = `order_${Date.now()}_${user.id.substring(0, 8)}`
OrderId(t, userId) == <<"order", t, userId>>

\* The edge function called for the checkout session of a user who went on
\* to the cart.  A request that fails (no authorization, no user, no
\* sessionId, no key, no session) is answered 500 and one whose session is
\* not paid 400; a paid one is answered 200 with an orderId made on the
\* spot.  No branch sends a statement to booking_slots.
VerifyPayment(u) ==
    /\ pc[u] = "away"
    /\ cartState[u] # NULL
    /\ orderId[u] = <<>>
    /\ \E failure \in BOOLEAN, payment_status \in {"paid", "unpaid"} :
         orderId' = [orderId EXCEPT ![u] =
                        IF ~failure /\ payment_status = "paid"
                        THEN OrderId(now, u) ELSE <<>>]
    /\ toast' = NoToast
    /\ UNCHANGED <<user, adminVars, payVars>>
    /\ UNCHANGED <<now, booking_slots, pc, slot, ret, availableSlots,
                   selectedSlot, heldSlot, fetchPc, expiresAt, calledAt,
                   cartState>>

\* ------------------------------------------------ setProviderAvailability
\* The upsert into provider_availability, whose error ends the handler, and
\* then the rpc (isAvailable) or the delete (not isAvailable), whose error is
\* not looked at.  No code of the model reads provider_availability, so the
\* handler is one step taken when its second statement runs.
SetProviderAvailability(p, d, isAvailable) ==
    /\ \E upsertError \in BOOLEAN, error \in BOOLEAN :
         booking_slots' =
            IF upsertError \/ error THEN booking_slots
            ELSE IF isAvailable THEN GenerateSlots(booking_slots, p, d)
            ELSE DeleteAvailable(booking_slots, p, d)
    /\ toast' = NoToast
    /\ UNCHANGED <<user, adminVars, payVars>>
    /\ UNCHANGED <<now, clientVars>>

\* ---------------------------------------------------------- specification
Next ==
    \/ Tick
    \/ \E u \in Users : FetchQuery(u)
    \/ \E u \in Users : FetchRequery(u)
    \/ \E u \in Users, s \in SlotIds : HandleSlotSelect(u, s)
    \/ \E u \in Users : SelectHold(u)
    \/ \E u \in Users : SelectDone(u)
    \/ \E u \in Users : HandleProceedToPayment(u)
    \/ \E u \in Users : LeavePage(u)
    \/ \E u \in Users : MountPage(u)
    \/ \E u \in Users : HandleSlotExpired(u)
    \/ \E u \in Users : ExpiredDone(u)
    \/ \E u \in Users : VerifyPayment(u)
    \/ \E p \in Providers, d \in Dates, isAvailable \in BOOLEAN :
          SetProviderAvailability(p, d, isAvailable)

Spec == Init /\ [][Next]_vars

\* The same pages with a session that is not logged in.
GuestSpec == GuestInit /\ [][Next]_vars

TypeOK ==
    /\ now \in 0..MaxNow
    /\ \A s \in SlotIds : booking_slots[s].status \in RowStatus \cup {"absent", "deleted"}

\* What the scheduling guarantees: the clock advances, a statement sent to
\* the store is answered, a continuation of a handler runs, and a mounted
\* countdown that is due calls onExpired.  Clicks, navigation and the
\* provider's changes are up to the people.
Fairness ==
    /\ WF_vars(Tick)
    /\ \A u \in Users :
         /\ WF_vars(FetchQuery(u))
         /\ WF_vars(FetchRequery(u))
         /\ WF_vars(SelectHold(u))
         /\ WF_vars(SelectDone(u))
         /\ WF_vars(HandleSlotExpired(u))
         /\ WF_vars(ExpiredDone(u))

FairSpec == Spec /\ Fairness

\* ------------------------------------------- ServiceRegisterRequestSection
\* fetchRequests: the rows of the filter's status (every row for 'all')
\* become the list; on an error of the store the list stays.
FetchRequests(a) ==
    /\ adminPc[a] = "fetch"
    /\ \E error \in BOOLEAN :
         requests' = IF error THEN requests
                     ELSE [requests EXCEPT ![a] =
                             [r \in RequestIds |->
                                IF filter[a] = "all"
                                   \/ provider_registration_requests[r].status = filter[a]
                                THEN provider_registration_requests[r].status
                                ELSE NULL]]
    /\ adminPc' = [adminPc EXCEPT ![a] = "idle"]
    /\ UNCHANGED <<provider_registration_requests, filter>>
    /\ UNCHANGED <<now, booking_slots, clientVars, toast, user, payVars>>

\* A click on a filter tab; the effect on filter calls fetchRequests.
SetFilter(a, f) ==
    /\ adminPc[a] = "idle"
    /\ f # filter[a]
    /\ filter' = [filter EXCEPT ![a] = f]
    /\ adminPc' = [adminPc EXCEPT ![a] = "fetch"]
    /\ UNCHANGED <<provider_registration_requests, requests>>
    /\ UNCHANGED <<now, booking_slots, clientVars, toast, user, payVars>>

\* The Refresh button.
Refresh(a) ==
    /\ adminPc[a] = "idle"
    /\ adminPc' = [adminPc EXCEPT ![a] = "fetch"]
    /\ UNCHANGED <<provider_registration_requests, requests, filter>>
    /\ UNCHANGED <<now, booking_slots, clientVars, toast, user, payVars>>

\* The Approve button, rendered for a listed request whose status in the
\* list is pending: the update by id, then fetchRequests unless the store
\* reported an error.
HandleApprove(a, requestId) ==
    /\ adminPc[a] = "idle"
    /\ requests[a][requestId] = "pending"
    /\ \E error \in BOOLEAN :
         /\ provider_registration_requests' =
               IF error THEN provider_registration_requests
               ELSE [provider_registration_requests EXCEPT ![requestId] =
                        [@ EXCEPT !.status = "approved", !.approved_by = a]]
         /\ adminPc' = [adminPc EXCEPT ![a] = IF error THEN "idle" ELSE "fetch"]
    /\ UNCHANGED <<requests, filter>>
    /\ UNCHANGED <<now, booking_slots, clientVars, toast, user, payVars>>

\* The Reject button of the dialog; the handler returns at once when the
\* reason is blank.
HandleReject(a, requestId, reason) ==
    /\ adminPc[a] = "idle"
    /\ requests[a][requestId] = "pending"
    /\ IF reason = ""
       THEN UNCHANGED <<provider_registration_requests, adminPc>>
       ELSE \E error \in BOOLEAN :
              /\ provider_registration_requests' =
                    IF error THEN provider_registration_requests
                    ELSE [provider_registration_requests EXCEPT ![requestId] =
                             [@ EXCEPT !.status = "rejected", !.rejected_by = a]]
              /\ adminPc' = [adminPc EXCEPT ![a] = IF error THEN "idle" ELSE "fetch"]
    /\ UNCHANGED <<requests, filter>>
    /\ UNCHANGED <<now, booking_slots, clientVars, toast, user, payVars>>

AdminNext ==
    \/ \E a \in Admins : FetchRequests(a)
    \/ \E a \in Admins, f \in Filters : SetFilter(a, f)
    \/ \E a \in Admins : Refresh(a)
    \/ \E a \in Admins, requestId \in RequestIds : HandleApprove(a, requestId)
    \/ \E a \in Admins, requestId \in RequestIds, reason \in {"", "incomplete"} :
          HandleReject(a, requestId, reason)

AdminSpec == Init /\ [][AdminNext]_vars

\* ---------------------------------------------------------- verify-payment
Methods == {"OPTIONS", "POST"}
AuthHeaders == {NULL, "Bearer tokenA", "Bearer tokenB", "Bearer stale"}
SessionIds == {NULL, "cs_1"}
PaymentStatuses == {"paid", "unpaid"}

HttpRequests ==
    {HttpRequest(m, h, sid, key, ps) :
        m \in Methods, h \in AuthHeaders, sid \in SessionIds,
        key \in BOOLEAN, ps \in PaymentStatuses \cup {NULL}}

\* authHeader.replace("Bearer ", "")
Token(authHeader) ==
    CASE authHeader = "Bearer tokenA" -> "tokenA"
      [] authHeader = "Bearer tokenB" -> "tokenB"
      [] authHeader = "Bearer stale" -> "stale"

\* supabaseClient.auth.getUser(token): the user of the token, NULL for the
\* userError of a token that is no user's.
GetUser(token) ==
    CASE token = "tokenA" -> "A"
      [] token = "tokenB" -> "B"
      [] OTHER -> NULL

\* The function answering with success for any token.
verifyPaymentNoUserCheck(r, t) ==
    IF r.method = "OPTIONS" THEN Response(200, <<>>, <<>>)
    ELSE IF r.authHeader = NULL THEN Response(500, <<FALSE>>, <<>>)
    ELSE IF r.sessionId = NULL THEN Response(500, <<FALSE>>, <<>>)
    ELSE IF ~r.stripeSecretKey THEN Response(500, <<FALSE>>, <<>>)
    ELSE IF r.session = NULL THEN Response(500, <<FALSE>>, <<>>)
    ELSE IF r.session = "paid"
         THEN Response(200, <<TRUE>>, <<OrderId(t, GetUser(Token(r.authHeader)))>>)
         ELSE Response(400, <<FALSE>>, <<>>)

\* The Response of the function to request r served at time t: the
\* preflight answer, the 500 of the catch for everything thrown, 200 for a
\* paid session and 400 for any other payment_status.
verifyPayment(r, t) ==
    IF r.method = "OPTIONS" THEN Response(200, <<>>, <<>>)
    ELSE IF r.authHeader = NULL THEN Response(500, <<FALSE>>, <<>>)
    ELSE IF GetUser(Token(r.authHeader)) = NULL THEN Response(500, <<FALSE>>, <<>>)
    ELSE IF r.sessionId = NULL THEN Response(500, <<FALSE>>, <<>>)
    ELSE IF ~r.stripeSecretKey THEN Response(500, <<FALSE>>, <<>>)
    ELSE IF r.session = NULL THEN Response(500, <<FALSE>>, <<>>)
    ELSE IF r.session = "paid"
         THEN Response(200, <<TRUE>>, <<OrderId(t, GetUser(Token(r.authHeader)))>>)
         ELSE Response(400, <<FALSE>>, <<>>)

\* A request arrives.
Receive ==
    /\ req = NoRequest
    /\ req' \in HttpRequests
    /\ UNCHANGED res
    /\ UNCHANGED <<now, booking_slots, clientVars, toast, user, adminVars>>

\* The function runs and returns its Response.
Serve ==
    /\ req # NoRequest /\ res = NoResponse
    /\ res' = verifyPayment(req, now)
    /\ UNCHANGED req
    /\ UNCHANGED <<now, booking_slots, clientVars, toast, user, adminVars>>

\* The Response has been sent.
Close ==
    /\ res # NoResponse
    /\ req' = NoRequest /\ res' = NoResponse
    /\ UNCHANGED <<now, booking_slots, clientVars, toast, user, adminVars>>

PaymentNext == Tick \/ Receive \/ Serve \/ Close

PaymentSpec == Init /\ [][PaymentNext]_vars

\* ------------------------------------------------- the hook called directly
\* useProviderAvailability hands holdSlot and releaseSlot to any caller: a
\* call with any slot id and user id is one statement of the store, or an
\* error of the store, and the returned value.
holdSlot(slotId, userId) ==
    /\ \E error \in BOOLEAN :
         /\ booking_slots' = IF error THEN booking_slots
                             ELSE HoldUpdate(booking_slots, slotId, userId, HoldExpiresAt(now))
         /\ ret' = [ret EXCEPT ![userId] = <<holdSlotReturn(error)>>]
    /\ slot' = [slot EXCEPT ![userId] = slotId]
    /\ toast' = NoToast
    /\ UNCHANGED <<now, pc, availableSlots, selectedSlot, heldSlot, fetchPc,
                   expiresAt, calledAt, cartState, orderId, user, adminVars, payVars>>

releaseSlot(slotId, userId) ==
    /\ \E error \in BOOLEAN :
         /\ booking_slots' = IF error THEN booking_slots
                             ELSE ReleaseUpdate(booking_slots, slotId, userId)
         /\ ret' = [ret EXCEPT ![userId] = <<releaseSlotReturn(error)>>]
    /\ slot' = [slot EXCEPT ![userId] = slotId]
    /\ toast' = NoToast
    /\ UNCHANGED <<now, pc, availableSlots, selectedSlot, heldSlot, fetchPc,
                   expiresAt, calledAt, cartState, orderId, user, adminVars, payVars>>

\* The slots the direct calls are made on: one that can be held, the booked
\* one and the blocked one.
HookSlots == {"s1", "s3", "s4"}

HookNext ==
    \/ Tick
    \/ \E slotId \in HookSlots, userId \in Users : holdSlot(slotId, userId)
    \/ \E slotId \in HookSlots, userId \in Users : releaseSlot(slotId, userId)

HookSpec == Init /\ [][HookNext]_vars

\* ------------------------------------------------------------------ steps
\* The step in which the store answers u's holdSlot call.
HoldStep(u) == pc[u] # "sel_done" /\ pc'[u] = "sel_done"

\* The step in which the store answers u's releaseSlot call.
ReleaseStep(u) == pc[u] = "idle" /\ pc'[u] \in {"sel_hold", "exp_done"}

\* The step in which u's countdown calls onExpired and the store answers the
\* handler's releaseSlot call.
ExpiryStep(u) == pc[u] = "idle" /\ pc'[u] = "exp_done"

\* The slots the store shows as held by u.
HeldBy(u) ==
    {s \in SlotIds : booking_slots[s].status = "held" /\ booking_slots[s].held_by = u}

\* s is held and its deadline has passed.
PastDeadline(s) ==
    /\ booking_slots[s].status = "held"
    /\ booking_slots[s].hold_expires_at <= now

\* ----------------------------------------------------------------- claims

\* C1: of the holdSlot calls that distinct users make on the same slot at the
\* same time, at most one returns true.
C1_AtMostOneSuccess ==
    \A u \in Users, v \in Users :
        (u # v /\ pc[u] = "sel_done" /\ pc[v] = "sel_done" /\ slot[u] = slot[v])
            => ~(ret[u] = <<TRUE>> /\ ret[v] = <<TRUE>>)

\* C2: a held slot keeps its holder and its deadline in every step, except
\* that a release by its holder makes it available; in particular a holdSlot
\* call by another user leaves it as it is.
C2_StoreExclusivity ==
    [][/\ \A s \in SlotIds :
            booking_slots[s].status = "held" =>
                \/ booking_slots'[s] = booking_slots[s]
                \/ /\ booking_slots'[s] = Row("available", NULL, NullTime)
                   /\ \E u \in Users : /\ ReleaseStep(u)
                                       /\ heldSlot[u] = s
                                       /\ booking_slots[s].held_by = u
       /\ \A u \in Users :
            HoldStep(u) =>
                \A s \in SlotIds :
                    (booking_slots[s].status = "held" /\ booking_slots[s].held_by # u)
                        => booking_slots'[s] = booking_slots[s]
      ]_vars

\* A holdSlot call of one user has been answered without error on a slot
\* that another user holds.
C2_Witness ==
    \E u \in Users :
        /\ pc[u] = "sel_done" /\ ret[u] = <<TRUE>>
        /\ booking_slots[slot[u]].status = "held"
        /\ booking_slots[slot[u]].held_by # u

\* C3: with the slot of u's hold past its deadline, u's proceeding to payment
\* never hands the slot to the cart.
C3_NoConfirmPastDeadline ==
    [][\A u \in Users :
          (/\ heldSlot[u] # NULL
           /\ booking_slots[heldSlot[u]].held_by = u
           /\ PastDeadline(heldSlot[u]))
              => ~(pc'[u] = "away" /\ cartState'[u] # NULL)
      ]_vars

\* C4: a holdSlot call returns true exactly when its update changed the row
\* from available to held by the caller.
C4_ReturnReflectsUpdate ==
    [][\A u \in Users :
          HoldStep(u) =>
              (ret'[u] = <<TRUE>> <=>
                  /\ booking_slots[slot'[u]].status = "available"
                  /\ booking_slots'[slot'[u]].status = "held"
                  /\ booking_slots'[slot'[u]].held_by = u)
      ]_vars

\* C5: in every row, held_by and hold_expires_at are both set or both null,
\* and they are set exactly when the status is held.
C5_HolderDeadlineInvariant ==
    \A s \in SlotIds :
        /\ booking_slots[s].held_by # NULL <=> booking_slots[s].hold_expires_at # NullTime
        /\ booking_slots[s].held_by # NULL <=> booking_slots[s].status = "held"

\* An expiry has released a slot while another slot is held and a slot has
\* been pruned or is yet to be generated.
C5_Witness ==
    /\ \E u \in Users : /\ pc[u] = "exp_done" /\ ret[u] = <<TRUE>>
                        /\ booking_slots[heldSlot[u]].status = "available"
    /\ \E s \in SlotIds : booking_slots[s].status = "held"

\* C6: the store never shows more than one slot held by the same user.
C6_AtMostOneHeldPerUser ==
    \A u \in Users : Cardinality(HeldBy(u)) <= 1

\* C7: a releaseSlot(slotId, u) call leaves every row as it is, except that
\* the row slotId, if held by u, becomes available with holder and deadline
\* null (and does so whenever the call returns true).
C7_ReleaseHolderOnly ==
    [][\A u \in Users :
          ReleaseStep(u) =>
              \A s \in SlotIds :
                  IF s = heldSlot[u] /\ booking_slots[s].held_by = u
                  THEN /\ booking_slots'[s] \in
                            {booking_slots[s], Row("available", NULL, NullTime)}
                       /\ ret'[u] = <<TRUE>> =>
                            booking_slots'[s] = Row("available", NULL, NullTime)
                  ELSE booking_slots'[s] = booking_slots[s]
      ]_vars

\* A releaseSlot call has been answered without error for a slot that
\* another user holds.
C7_Witness ==
    \E u \in Users :
        /\ pc[u] = "sel_hold" /\ ret[u] = <<TRUE>>
        /\ booking_slots[heldSlot[u]].status = "held"
        /\ booking_slots[heldSlot[u]].held_by # u

\* C8: on every table the program reaches, releaseSlot of an available or a
\* booked row changes nothing, a booked row stays booked, the value returned
\* depends on nothing but the store's error, and releasing twice gives the
\* table that releasing once gives.
C8_IdempotentRelease ==
    \A s \in SlotIds, u \in Users :
        LET once == ReleaseUpdate(booking_slots, s, u)
            twice == ReleaseUpdate(once, s, u)
        IN  /\ twice = once
            /\ booking_slots[s].status \in {"available", "booked"} => once = booking_slots
            /\ booking_slots[s].status = "booked" => twice[s].status = "booked"
            /\ releaseSlotReturn(FALSE) = TRUE

\* A releaseSlot call has been answered without error for a slot that is
\* available, the table holding a booked row as well.
C8_Witness ==
    /\ \E u \in Users : /\ pc[u] \in {"sel_hold", "exp_done"} /\ ret[u] = <<TRUE>>
                        /\ booking_slots[heldSlot[u]].status = "available"
    /\ \E s \in SlotIds : booking_slots[s].status = "booked"

\* C9: a slot that is held past its deadline is available again at some
\* later time.
C9_ExpiredHoldsReclaimed ==
    \A s \in SlotIds : PastDeadline(s) ~> (booking_slots[s].status = "available")

\* C10: a holdSlot call by u that changes a row changes only the row it
\* names, from available to held by u until 7 minutes after the call.
C10_HoldEffect ==
    [][\A u \in Users :
          HoldStep(u) =>
              LET called == IF pc[u] = "sel_hold" THEN calledAt[u] ELSE now
              IN  \A s \in SlotIds :
                    booking_slots'[s] # booking_slots[s] =>
                        /\ s = slot'[u]
                        /\ booking_slots[s].status = "available"
                        /\ booking_slots'[s] = Row("held", u, called + HOLD_DURATION)
      ]_vars

\* A holdSlot call has returned true and its slot is held by the caller
\* until 7 minutes from now.
C10_Witness ==
    \E u \in Users :
        /\ pc[u] = "sel_done" /\ ret[u] = <<TRUE>>
        /\ booking_slots[slot[u]] = Row("held", u, now + HOLD_DURATION)

\* C11: when verify-payment answers that the payment of a hold confirmed and
\* paid before its deadline has succeeded, the slot becomes booked; and a
\* booked slot stays booked in every step.
C11_ConfirmBooksSlot ==
    [][/\ \A u \in Users :
            (/\ orderId[u] = <<>> /\ orderId'[u] # <<>>
             /\ booking_slots[cartState[u]].status = "held"
             /\ booking_slots[cartState[u]].held_by = u
             /\ now < booking_slots[cartState[u]].hold_expires_at)
                => booking_slots'[cartState[u]].status = "booked"
       /\ \A s \in SlotIds :
            booking_slots[s].status = "booked" => booking_slots'[s].status = "booked"
      ]_vars

C14_NoExtension ==
    [][/\ \A s \in SlotIds :
            (/\ booking_slots[s].status = "held" /\ booking_slots'[s].status = "held"
             /\ booking_slots'[s].held_by = booking_slots[s].held_by)
                => booking_slots'[s].hold_expires_at <= booking_slots[s].hold_expires_at
       /\ \A u \in Users :
            (/\ heldSlot[u] # NULL /\ heldSlot'[u] = heldSlot[u]
             /\ booking_slots[heldSlot[u]].held_by = u
             /\ booking_slots'[heldSlot[u]] = booking_slots[heldSlot[u]]
             /\ expiresAt[u] # NullTime /\ expiresAt'[u] # NullTime)
                => expiresAt'[u] <= expiresAt[u]
      ]_vars

\* C15: the rows that a step removes from the table were available before
\* the step and are all of one provider and one date; a held or a booked
\* row is never removed.
C15_PruneOnlyAvailable ==
    [][booking_slots' # booking_slots =>
          \A s \in SlotIds :
              (InTable(booking_slots[s]) /\ ~InTable(booking_slots'[s])) =>
                  /\ booking_slots[s].status = "available"
                  /\ \A r \in SlotIds :
                        (InTable(booking_slots[r]) /\ ~InTable(booking_slots'[r])) =>
                            /\ slot_provider[r] = slot_provider[s]
                            /\ slot_date[r] = slot_date[s]
      ]_vars

\* A slot has been pruned while another slot of the provider and date is
\* held, one is booked, and the slots of the other provider and of the other
\* date are in the table.
C15_Witness ==
    /\ \E s \in SlotIds : booking_slots[s].status = "deleted"
    /\ \E s \in SlotIds : /\ booking_slots[s].status = "held"
                           /\ slot_provider[s] = "p1" /\ slot_date[s] = "d1"
    /\ \E s \in SlotIds : booking_slots[s].status = "booked"
    /\ InTable(booking_slots["s5"]) /\ InTable(booking_slots["s6"])

\* C16: the list that a query of a fetch puts on the page holds, unless the
\* query is answered with no slot at all, each slot of the page's provider
\* and date that is available when the query runs once, and no other slot,
\* by ascending display_order.
C16_QueryExact ==
    [][\A u \in Users :
          (fetchPc[u] # "idle" /\ fetchPc'[u] = "idle" /\ availableSlots'[u] # <<>>) =>
              LET r == availableSlots'[u]
              IN  /\ {r[i] : i \in 1..Len(r)} =
                        {s \in SlotIds : /\ booking_slots[s].status = "available"
                                         /\ slot_provider[s] = providerId
                                         /\ slot_date[s] = selectedDate}
                  /\ \A i \in 1..Len(r), j \in 1..Len(r) :
                        i < j => SlotOrder[r[i]] < SlotOrder[r[j]]
      ]_vars

\* One page lists s1 and s2, as queried before s1 was held, and another
\* lists s2 alone, as queried since.
C16_Witness ==
    \E u \in Users, v \in Users :
        /\ availableSlots[u] = <<"s1", "s2">>
        /\ availableSlots[v] = <<"s2">>
        /\ booking_slots["s1"].status = "held"
        /\ booking_slots["s2"].status = "available"
        /\ booking_slots["s5"].status = "available"

\* C17: when a fetch whose first query found no slot ends, no slot of the
\* page's provider and date is left ungenerated.
C17_LazyGeneration ==
    [][\A u \in Users :
          (fetchPc[u] = "requery" /\ fetchPc'[u] = "idle") =>
              \A s \in SlotIds :
                  (slot_provider[s] = providerId /\ slot_date[s] = selectedDate)
                      => booking_slots'[s].status # "absent"
      ]_vars

\* C18: a step of the provider that changes the table otherwise than by
\* pruning changes rows from not generated to available and no row that
\* exists, and generating again on the table it leaves changes nothing.
C18_GenerationIdempotent ==
    [][(/\ booking_slots' # booking_slots /\ pc' = pc
        /\ \E s \in SlotIds : /\ booking_slots'[s] # booking_slots[s]
                               /\ booking_slots'[s].status # "deleted") =>
          /\ \A s \in SlotIds :
                booking_slots'[s] # booking_slots[s] =>
                    /\ booking_slots[s].status = "absent"
                    /\ booking_slots'[s] = Row("available", NULL, NullTime)
          /\ \A p \in Providers, d \in Dates :
                GenerateSlots(booking_slots', p, d) = booking_slots'
      ]_vars

\* The slots of the provider and date have been generated, one of them
\* since another was pruned.
C18_Witness ==
    /\ booking_slots["s1"].status = "deleted"
    /\ booking_slots["s2"] = Row("available", NULL, NullTime)
    /\ \A u \in Users : pc[u] = "idle" /\ heldSlot[u] = NULL /\ availableSlots[u] = <<>>

\* C19: the toast shown for a holdSlot call that returned false, which it
\* does from its catch of a store error only, is not "Slot Unavailable"
\* (This slot is no longer available).
C19_FailureNotContention ==
    [][\A u \in Users :
          (pc[u] = "sel_done" /\ pc'[u] = "idle" /\ ret[u] = <<FALSE>>)
              => toast' # <<u, "Slot Unavailable">>
      ]_vars

\* C20: a query of a fetch that is answered as if no slot were available,
\* while the table has available slots of the page's provider and date, is
\* reported to the page as an error.
C20_QueryFailurePropagated ==
    [][\A u \in Users :
          (/\ \E s \in SlotIds : /\ booking_slots[s].status = "available"
                                  /\ slot_provider[s] = providerId
                                  /\ slot_date[s] = selectedDate
           /\ \/ fetchPc[u] = "query" /\ fetchPc'[u] = "requery"
              \/ fetchPc[u] = "requery" /\ fetchPc'[u] = "idle"
                                        /\ availableSlots'[u] = <<>>)
              => toast' = <<u, "Error">>
      ]_vars

\* C21: a failed release is never silently dropped.  When the releaseSlot
\* call a handler awaited (on a slot switch or on expiry) returned false, the
\* handler's next step alerts the user or issues the release again, and it
\* does not drop the slot from the client's heldSlot while the store still
\* shows the slot held by that user.
C21_FailedReleaseNotDropped ==
    [][\A u \in Users :
         (pc[u] \in {"sel_hold", "exp_done"} /\ ret[u] = <<FALSE>> /\ pc'[u] # pc[u])
            => /\ toast' = <<u, "Error">>
               /\ ~(/\ heldSlot'[u] # heldSlot[u]
                     /\ booking_slots'[heldSlot[u]].held_by = u)]_vars

\* C22: an unauthenticated acquire is rejected before any store call.  In a
\* session without a user, the step of a slot selection (the one that shows
\* "Authentication Required") changes no row of the store and leaves the
\* client's selected and held slot as they were, and the handler never gets
\* to awaiting a release or a hold.
C22_UnauthenticatedRejected ==
    [][\A u \in Users :
         user[u] = NULL
            => /\ pc'[u] \notin {"sel_hold", "sel_done", "exp_done"}
               /\ ret'[u] = ret[u]
               /\ toast' = <<u, "Authentication Required">>
                     => /\ booking_slots' = booking_slots
                        /\ selectedSlot' = selectedSlot
                        /\ heldSlot' = heldSlot
                        /\ pc' = pc]_vars

\* The guest has selected a listed slot while another user holds one.
C22_Witness ==
    /\ user["B"] = NULL
    /\ toast = <<"B", "Authentication Required">>
    /\ heldSlot["B"] = NULL
    /\ \E s \in SlotIds : HeldBy("A") = {s}

\* C23: hold/release round trip.  When a user releases the slot they hold
\* before its deadline, the row is back in the state it had before the hold
\* (available, no holder, no deadline) and a hold by any other user on it
\* makes that user the holder; and a hold that the store runs on such a row
\* makes the caller its holder.
C23_HoldReleaseRoundTrip ==
    [][\A u \in Users :
         /\ (/\ ReleaseStep(u) /\ ret'[u] = <<TRUE>>
             /\ heldSlot[u] \in HeldBy(u) /\ ~PastDeadline(heldSlot[u]))
              => /\ booking_slots'[heldSlot[u]] = Row("available", NULL, NullTime)
                 /\ \A v \in Users \ {u} :
                      HoldUpdate(booking_slots', heldSlot[u], v, HoldExpiresAt(now))[heldSlot[u]]
                         = Row("held", v, now + HOLD_DURATION)
         /\ (/\ HoldStep(u) /\ ret'[u] = <<TRUE>>
             /\ booking_slots[slot'[u]] = Row("available", NULL, NullTime))
              => /\ booking_slots'[slot'[u]].status = "held"
                 /\ booking_slots'[slot'[u]].held_by = u]_vars

\* Within the hold window one user has released a slot on a switch and the
\* other has then taken the hold on it.
C23_Witness ==
    \E u \in Users, v \in Users :
       /\ u # v /\ now < HOLD_DURATION
       /\ pc[u] = "sel_hold" /\ ret[u] = <<TRUE>> /\ heldSlot[u] # NULL
       /\ pc[v] = "sel_done" /\ ret[v] = <<TRUE>> /\ slot[v] = heldSlot[u]
       /\ booking_slots[heldSlot[u]] = Row("held", v, HOLD_DURATION)

\* C24: customer operations never change a blocked slot.  No holdSlot or
\* releaseSlot call, by any user and on any slot, changes the status, the
\* holder or the deadline of a row whose status is blocked.
C24_BlockedUntouched ==
    [][\A s \in SlotIds :
         booking_slots[s].status = "blocked" => booking_slots'[s] = booking_slots[s]]_vars

\* Both users have called holdSlot and releaseSlot on the blocked slot, and
\* the store ran a statement of each.
C24_Witness ==
    /\ booking_slots["s4"].status = "blocked"
    /\ slot["A"] = "s4" /\ ret["A"] = <<TRUE>>
    /\ slot["B"] = "s4" /\ ret["B"] = <<TRUE>>

C26_ClientStoreAgreement ==
    \A u \in Users :
       (pc[u] = "idle" /\ heldSlot[u] # NULL)
          => /\ booking_slots[heldSlot[u]].status = "held"
             /\ booking_slots[heldSlot[u]].held_by = u

\* C27: switch ordering.  When a user who holds S1 selects another slot S2,
\* the step that issues the release of S1 leaves the row of S2 alone, the
\* hold on S2 is issued only once the release has returned, and when the
\* release returned true the store does not show both S1 and S2 held by the
\* user after the hold.
C27_SwitchOrdering ==
    [][\A u \in Users :
         /\ (pc[u] = "idle" /\ pc'[u] = "sel_hold")
              => booking_slots'[slot'[u]] = booking_slots[slot'[u]]
         /\ (pc[u] = "sel_hold" /\ pc'[u] = "sel_done")
              => /\ ret[u] # <<>>
                 /\ booking_slots'[heldSlot[u]] = booking_slots[heldSlot[u]]
                 /\ ret[u] = <<TRUE>>
                      => ~(/\ booking_slots'[heldSlot[u]].held_by = u
                           /\ booking_slots'[slot[u]].held_by = u)]_vars

\* The release of S1 has returned true and the hold on S2 has been obtained.
C27_Witness ==
    \E u \in Users :
       /\ pc[u] = "sel_done" /\ ret[u] = <<TRUE>>
       /\ heldSlot[u] # NULL /\ slot[u] # heldSlot[u]
       /\ booking_slots[heldSlot[u]] = Row("available", NULL, NullTime)
       /\ booking_slots[slot[u]].status = "held"
       /\ booking_slots[slot[u]].held_by = u

\* C28: re-selecting the slot the user already holds issues no release and
\* does not change the store: the step goes straight to the hold call, whose
\* update leaves every row as it was, so the slot stays held by the user
\* with the hold_expires_at of the original acquisition.
C28_ReselectKeepsRecord ==
    [][\A u \in Users :
         (/\ pc[u] = "idle" /\ pc'[u] \in {"sel_hold", "sel_done"}
          /\ heldSlot[u] # NULL /\ slot'[u] = heldSlot[u]
          /\ heldSlot[u] \in HeldBy(u))
            => /\ pc'[u] = "sel_done"
               /\ booking_slots' = booking_slots]_vars

\* The user has selected the slot they hold again, later than they acquired
\* it, and the store ran the hold update.
C28_Witness ==
    \E u \in Users :
       /\ pc[u] = "sel_done" /\ ret[u] = <<TRUE>>
       /\ heldSlot[u] # NULL /\ slot[u] = heldSlot[u]
       /\ booking_slots[slot[u]].status = "held"
       /\ booking_slots[slot[u]].held_by = u
       /\ booking_slots[slot[u]].hold_expires_at < now + HOLD_DURATION

\* C29: registration-request approval is a one-way transition from pending.
\* Under any interleaving of handleApprove and handleReject by the admins, a
\* request's status only changes from pending, to approved or to rejected; a
\* request that is approved or rejected never changes status again.
C29_OneWayFromPending ==
    [][\A r \in RequestIds :
         provider_registration_requests'[r].status # provider_registration_requests[r].status
            => /\ provider_registration_requests[r].status = "pending"
               /\ provider_registration_requests'[r].status \in {"approved", "rejected"}]_vars

\* C30: verify-payment reports success only for an authenticated caller and
\* a paid session.  The Response has success true and an order id exactly
\* when the request carries an Authorization header that resolves to a
\* user, gives a sessionId, and the checkout session retrieved for it (which
\* takes a request that is not a preflight and a configured Stripe key) has
\* payment_status paid; a retrieved session that is not paid yields success
\* false with status 400, and every other failure success false with 500.
C30_SuccessOnlyPaidAuthenticated ==
    res # NoResponse
       => LET authenticated == /\ req.authHeader # NULL
                               /\ GetUser(Token(req.authHeader)) # NULL
              retrieved == /\ req.method # "OPTIONS"
                           /\ authenticated
                           /\ req.sessionId # NULL
                           /\ req.stripeSecretKey
                           /\ req.session # NULL
          IN  /\ (res.success = <<TRUE>> /\ res.orderId # <<>>)
                    <=> (retrieved /\ req.session = "paid")
              /\ res.success = <<TRUE>> => res.status = 200
              /\ (retrieved /\ req.session # "paid")
                    => (res.success = <<FALSE>> /\ res.status = 400)
              /\ (req.method # "OPTIONS" /\ ~retrieved)
                    => (res.success = <<FALSE>> /\ res.status = 500)

\* An authenticated caller's paid session has been answered with an order
\* id of that caller.
C30_Witness ==
    /\ req = HttpRequest("POST", "Bearer tokenA", "cs_1", TRUE, "paid")
    /\ res.status = 200 /\ res.success = <<TRUE>>
    /\ res.orderId = <<OrderId(now, "A")>>

====
